---- MODULE Spec2Model ----
(***************************************************************************)
(* Model of src/dapp-kit/connect-button.js: the wallet connect widget.     *)
(* One state is the page between two tasks of the event loop.  A handler   *)
(* runs atomically up to its first await; the continuation after an await  *)
(* is a separate action (ConnectSettle, DisconnectSettle).                 *)
(* Handlers are written as operators from a state record to a state        *)
(* record, so that a handler can call another one and so that a registry   *)
(* event can run every listener the widget has added.                      *)
(***************************************************************************)
EXTENDS Integers, Sequences, FiniteSets, TLC

VARIABLES
  selectedWallet,           \* let selectedWallet
  selectedAccount,          \* let selectedAccount
  isConnecting,             \* let isConnecting
  walletEventsUnsubscribe,  \* wallet whose 'change' listener is live, or None
  mountedContainer,         \* let mountedContainer
  els,                      \* container that buttonEl/pickerEl/walletListEl/disconnectEl belong to
  dom,                      \* what each container shows
  pref,                     \* localStorage[PREFERRED_WALLET_KEY]
  storage,                  \* how localStorage behaves in this session
  bridge,                   \* last argument of updateWalletBridgeState
  registry,                 \* wallets known to walletsApi
  regHandlers,              \* number of 'register' listeners added by the widget
  unregHandlers,            \* number of 'unregister' listeners added by the widget
  docHandlers,              \* number of document click/keydown listener pairs
  handles,                  \* containers for which a real unmount handle was returned
  connectPending,           \* connect() promises not yet settled
  discPending,              \* disconnect() promises not yet settled, per wallet
  discCalls,                \* disconnect() invocations since the selection was last set
  mounts,                   \* number of complete mounts so far
  unmountCalled,            \* unmount() of a handle has run
  ev,                       \* the task that ran last and what it called
  signerCall                \* one call of the closure getSigner returned

vars == <<selectedWallet, selectedAccount, isConnecting, walletEventsUnsubscribe,
          mountedContainer, els, dom, pref, storage, bridge, registry,
          regHandlers, unregHandlers, docHandlers, handles, connectPending,
          discPending, discCalls, mounts, unmountCalled, ev, signerCall>>

----------------------------------------------------------------------------
(* Bounds *)

MaxMounts == 2
MaxPendingDisconnects == 2

----------------------------------------------------------------------------
(* Values *)

None == "none"
SUI_MAINNET_CHAIN == "sui:mainnet"

Wallets == {"W1", "W2", "W3"}
Containers == {"c1"}
Missing == "missing"

\* wallet.id, wallet.name and the order of the names under localeCompare
WalletIdField == [w \in Wallets |-> IF w = "W2" THEN "phantom-id" ELSE ""]
WalletNameField == [w \in Wallets |->
  IF w = "W1" THEN "Slush" ELSE IF w = "W2" THEN "Phantom" ELSE "Legacy"]
NameRank == [w \in Wallets |-> IF w = "W1" THEN 3 ELSE IF w = "W2" THEN 2 ELSE 1]

\* wallet.features
Features == [w \in Wallets |->
  IF w = "W1" THEN {"standard:connect", "standard:disconnect", "standard:events",
                    "sui:signTransaction"}
  ELSE IF w = "W2" THEN {"standard:connect", "standard:events",
                         "sui:signAndExecuteTransaction"}
  ELSE {"standard:connect", "standard:disconnect"}]

Account(address, isArray, chains) ==
  [address |-> address, chainsIsArray |-> isArray, chains |-> chains]
NoAccount == Account("", FALSE, <<>>)
A1 == Account("0xa1", TRUE, <<"sui:mainnet">>)
A2 == Account("0xa2", TRUE, <<"sui:testnet">>)
A3 == Account("0xa3", TRUE, <<"sui:devnet", "sui:mainnet">>)
A4 == Account("0xa4", FALSE, <<>>)

\* wallet.accounts
WalletAccounts == [w \in Wallets |-> IF w = "W3" THEN <<>> ELSE <<A2, A3, A1>>]

\* account lists a wallet hands over
AccountLists == {<<>>, <<A4, A2>>}

\* the argument of a 'change' listener / the result of connect()
Payload(defined, accounts) == [defined |-> defined, accounts |-> accounts]
Payloads == {Payload(TRUE, l) : l \in AccountLists} \cup {Payload(FALSE, <<>>)}

StorageModes == {"ok", "disabled"}

----------------------------------------------------------------------------
(* The state record the handlers work on *)

Cur == [selectedWallet |-> selectedWallet, selectedAccount |-> selectedAccount,
        isConnecting |-> isConnecting,
        walletEventsUnsubscribe |-> walletEventsUnsubscribe,
        mountedContainer |-> mountedContainer, els |-> els, dom |-> dom,
        pref |-> pref, storage |-> storage, bridge |-> bridge,
        registry |-> registry, regHandlers |-> regHandlers,
        unregHandlers |-> unregHandlers, docHandlers |-> docHandlers,
        handles |-> handles, connectPending |-> connectPending,
        discPending |-> discPending, discCalls |-> discCalls,
        mounts |-> mounts, unmountCalled |-> unmountCalled, ev |-> ev]

Install(s) ==
  /\ selectedWallet' = s.selectedWallet
  /\ selectedAccount' = s.selectedAccount
  /\ isConnecting' = s.isConnecting
  /\ walletEventsUnsubscribe' = s.walletEventsUnsubscribe
  /\ mountedContainer' = s.mountedContainer
  /\ els' = s.els
  /\ dom' = s.dom
  /\ pref' = s.pref
  /\ storage' = s.storage
  /\ bridge' = s.bridge
  /\ registry' = s.registry
  /\ regHandlers' = s.regHandlers
  /\ unregHandlers' = s.unregHandlers
  /\ docHandlers' = s.docHandlers
  /\ handles' = s.handles
  /\ connectPending' = s.connectPending
  /\ discPending' = s.discPending
  /\ discCalls' = s.discCalls
  /\ mounts' = s.mounts
  /\ unmountCalled' = s.unmountCalled
  /\ ev' = s.ev
  /\ signerCall' = signerCall

\* A task starts: nothing has been called yet.
\* uiSaw, listSaw and pubSaw are the selection refreshButtonUi, renderWalletList
\* and syncBridgeState last worked on; logged counts console.error calls;
\* raised says an exception left the handler.
NotSeen == <<>>
NoEvent ==
  [tag |-> "", pubs |-> 0, writes |-> 0, connects |-> 0, disconnects |-> 0,
   handlers |-> 0, uiSaw |-> NotSeen, listSaw |-> NotSeen, pubSaw |-> NotSeen,
   logged |-> 0, raised |-> FALSE]
NoPayload == Payload(FALSE, <<>>)
Begin(s) == [s EXCEPT !.ev = NoEvent]
\* the first branch a task takes names it
Tag(s, t) == IF s.ev.tag = "" THEN [s EXCEPT !.ev.tag = t] ELSE s
\* selectedWallet, selectedAccount and isConnecting as a handler sees them
Sel(s) == <<s.selectedWallet, s.selectedAccount, s.isConnecting>>

----------------------------------------------------------------------------
(* Helpers of the module *)

getWalletIdentifier(wallet) ==
  IF wallet = None THEN ""
  ELSE IF WalletIdField[wallet] # "" THEN WalletIdField[wallet]
  ELSE IF WalletNameField[wallet] # "" THEN WalletNameField[wallet]
  ELSE ""

RECURSIVE includes(_, _)
includes(chains, chain) ==
  IF chains = <<>> THEN FALSE
  ELSE Head(chains) = chain \/ includes(Tail(chains), chain)

\* accounts.find(...): the first account whose chains array includes the chain
RECURSIVE find(_)
find(accounts) ==
  IF accounts = <<>> THEN NoAccount
  ELSE IF Head(accounts).chainsIsArray /\ includes(Head(accounts).chains, SUI_MAINNET_CHAIN)
       THEN Head(accounts)
       ELSE find(Tail(accounts))

\* A faulty variant: the chain lists are not looked at.
getPreferredAccount_first(accounts) ==
  IF accounts # <<>> THEN accounts[1] ELSE NoAccount

getPreferredAccount(accounts) ==
  LET suiMainnetAccount == find(accounts) IN
  IF suiMainnetAccount # NoAccount THEN suiMainnetAccount
  ELSE IF accounts # <<>> THEN accounts[1]
  ELSE NoAccount

canConnect(wallet) ==
  /\ "standard:connect" \in Features[wallet]
  /\ \/ "sui:signTransaction" \in Features[wallet]
     \/ "sui:signTransactionBlock" \in Features[wallet]
     \/ "sui:signAndExecuteTransaction" \in Features[wallet]
     \/ "sui:signAndExecuteTransactionBlock" \in Features[wallet]

RECURSIVE sortByName(_)
sortByName(S) ==
  IF S = {} THEN <<>>
  ELSE LET first == CHOOSE w \in S : \A v \in S : NameRank[w] <= NameRank[v]
       IN <<first>> \o sortByName(S \ {first})

getConnectableWallets(s) == sortByName({w \in s.registry : canConnect(w)})

Range(seq) == {seq[i] : i \in 1..Len(seq)}

\* A faulty variant: the wallet's name is stored, not its identifier.
persistPreferredWallet_storesName(s, wallet) ==
  LET s1 == [s EXCEPT !.ev.writes = @ + 1] IN
  IF s.storage = "disabled" THEN s1
  ELSE IF wallet # None THEN [s1 EXCEPT !.pref = WalletNameField[wallet]]
  ELSE [s1 EXCEPT !.pref = None]

\* localStorage throws in a "disabled" session and the catch swallows it
persistPreferredWallet(s, wallet) ==
  LET s1 == [s EXCEPT !.ev.writes = @ + 1] IN
  IF s.storage = "disabled" THEN s1
  ELSE IF wallet # None THEN [s1 EXCEPT !.pref = getWalletIdentifier(wallet)]
  ELSE [s1 EXCEPT !.pref = None]

getPreferredWalletId(s) == IF s.storage = "disabled" THEN None ELSE s.pref

cleanupWalletEvents(s) == [s EXCEPT !.walletEventsUnsubscribe = None]

closeWalletPicker(s) ==
  IF s.els = None THEN s ELSE [s EXCEPT !.dom[s.els].pickerHidden = TRUE]

openWalletPicker(s) ==
  IF s.els = None THEN s ELSE [s EXCEPT !.dom[s.els].pickerHidden = FALSE]

toggleWalletPicker(s) ==
  IF s.els = None THEN s
  ELSE [s EXCEPT !.dom[s.els].pickerHidden = ~s.dom[s.els].pickerHidden]

\* the closure getSigner returns is known by the pair it was made for
NoSigner == [wallet |-> None, account |-> NoAccount]
getSigner(wallet, account) == [wallet |-> wallet, account |-> account]

Unpublished ==
  [wallet |-> None, account |-> NoAccount, status |-> "unpublished",
   disconnect |-> FALSE, signAndExecute |-> NoSigner]

\* A faulty variant: the status is never 'connecting'.
syncBridgeState_neverConnecting(s) ==
  LET published ==
        IF s.selectedWallet # None /\ s.selectedAccount # NoAccount
        THEN [wallet |-> s.selectedWallet, account |-> s.selectedAccount,
              status |-> "connected", disconnect |-> TRUE,
              signAndExecute |-> getSigner(s.selectedWallet, s.selectedAccount)]
        ELSE [wallet |-> None, account |-> NoAccount, status |-> "disconnected",
              disconnect |-> FALSE, signAndExecute |-> NoSigner]
  IN [s EXCEPT !.bridge = published, !.ev.pubs = @ + 1, !.ev.pubSaw = Sel(s)]

syncBridgeState(s) ==
  LET published ==
        IF s.selectedWallet # None /\ s.selectedAccount # NoAccount
        THEN [wallet |-> s.selectedWallet, account |-> s.selectedAccount,
              status |-> "connected", disconnect |-> TRUE,
              signAndExecute |-> getSigner(s.selectedWallet, s.selectedAccount)]
        ELSE [wallet |-> None, account |-> NoAccount,
              status |-> IF s.isConnecting THEN "connecting" ELSE "disconnected",
              disconnect |-> FALSE, signAndExecute |-> NoSigner]
  IN [s EXCEPT !.bridge = published, !.ev.pubs = @ + 1, !.ev.pubSaw = Sel(s)]

refreshButtonUi(s) ==
  IF s.els = None THEN s
  ELSE [s EXCEPT
         !.dom[s.els].text = IF s.isConnecting THEN "Connecting..."
                             ELSE IF s.selectedAccount # NoAccount THEN "address"
                             ELSE "Connect Wallet",
         !.dom[s.els].discHidden = (s.selectedAccount = NoAccount),
         !.ev.uiSaw = Sel(s)]

renderWalletList(s) ==
  IF s.els = None THEN s
  ELSE LET wallets == getConnectableWallets(s) IN
       [s EXCEPT
         !.dom[s.els].list = wallets,
         !.dom[s.els].active =
            {w \in Range(wallets) :
               /\ s.selectedWallet # None
               /\ getWalletIdentifier(s.selectedWallet) = getWalletIdentifier(w)},
         !.ev.listSaw = Sel(s)]

subscribeToWalletEvents(s, wallet) ==
  LET s1 == cleanupWalletEvents(s) IN
  IF "standard:events" \notin Features[wallet] THEN s1
  ELSE [s1 EXCEPT !.walletEventsUnsubscribe = wallet]

----------------------------------------------------------------------------
(* Handlers *)

\* A faulty variant: an empty account list is ignored.
onChange_ignoresEmpty(s, wallet, payload) ==
  IF s.selectedWallet = None
     \/ getWalletIdentifier(wallet) # getWalletIdentifier(s.selectedWallet)
  THEN s
  ELSE LET nextAccount ==
             getPreferredAccount(IF payload.defined THEN payload.accounts
                                 ELSE WalletAccounts[wallet])
       IN IF nextAccount # NoAccount
          THEN syncBridgeState(renderWalletList(refreshButtonUi(
                 Tag([s EXCEPT !.selectedAccount = nextAccount], "account"))))
          ELSE Tag(s, "cleared")

\* the listener subscribeToWalletEvents(wallet) adds with eventsFeature.on('change', ...)
onChange(s, wallet, payload) ==
  IF s.selectedWallet = None
     \/ getWalletIdentifier(wallet) # getWalletIdentifier(s.selectedWallet)
  THEN s
  ELSE LET nextAccount ==
             getPreferredAccount(IF payload.defined THEN payload.accounts
                                 ELSE WalletAccounts[wallet])
       IN IF nextAccount # NoAccount
          THEN syncBridgeState(renderWalletList(refreshButtonUi(
                 Tag([s EXCEPT !.selectedAccount = nextAccount], "account"))))
          ELSE syncBridgeState(renderWalletList(refreshButtonUi(
                 persistPreferredWallet(
                   Tag([s EXCEPT !.selectedWallet = None,
                                 !.selectedAccount = NoAccount], "cleared"),
                   None))))

\* A faulty variant: the finally block does not publish.
connectFinally_noSync(s) ==
  renderWalletList(refreshButtonUi([s EXCEPT !.isConnecting = FALSE]))

\* A faulty variant: the finally block leaves isConnecting set.
connectFinally_keepsConnecting(s) ==
  syncBridgeState(renderWalletList(refreshButtonUi(s)))

\* connectToWallet: the finally block
connectFinally(s) ==
  syncBridgeState(renderWalletList(refreshButtonUi([s EXCEPT !.isConnecting = FALSE])))

\* A faulty variant: the error is logged and thrown again.
connectCatch_rethrows(s, persistSelection) ==
  [Tag(s, IF persistSelection THEN "failed" ELSE "autoFailed") EXCEPT
     !.ev.logged = @ + 1, !.ev.raised = TRUE]

\* connectToWallet: the catch block; console.error, nothing is thrown again.
\* The tag tells the attempt of a click (persistSelection) from an automatic one.
connectCatch(s, persistSelection) ==
  [Tag(s, IF persistSelection THEN "failed" ELSE "autoFailed") EXCEPT
     !.ev.logged = @ + 1]

\* A faulty variant: no isConnecting guard.
connectToWallet_noGuard(s, wallet, persistSelection) ==
  IF wallet = None THEN Tag(s, "dropped")
  ELSE LET s1 == syncBridgeState(refreshButtonUi([s EXCEPT !.isConnecting = TRUE])) IN
       IF "standard:connect" \notin Features[wallet]
       THEN connectFinally(connectCatch(s1, persistSelection))
       ELSE [Tag(s1, IF s.isConnecting THEN "dropped" ELSE "started") EXCEPT
              !.ev.connects = @ + 1,
              !.connectPending =
                 Append(@, [wallet |-> wallet, persistSelection |-> persistSelection])]

\* connectToWallet up to `await connectFeature.connect()`
connectToWallet(s, wallet, persistSelection) ==
  IF wallet = None \/ s.isConnecting THEN Tag(s, "dropped")
  ELSE LET s1 == syncBridgeState(refreshButtonUi([s EXCEPT !.isConnecting = TRUE])) IN
       IF "standard:connect" \notin Features[wallet]
       THEN connectFinally(connectCatch(s1, persistSelection))
       ELSE [Tag(s1, "started") EXCEPT
              !.ev.connects = @ + 1,
              !.connectPending =
                 Append(@, [wallet |-> wallet, persistSelection |-> persistSelection])]

\* A faulty variant: the selection is never persisted.
connectToWalletResume_neverPersists(s, wallet, persistSelection, result) ==
  LET account ==
        getPreferredAccount(IF result.payload.defined THEN result.payload.accounts
                            ELSE WalletAccounts[wallet])
  IN IF result.kind = "reject" \/ account = NoAccount
     THEN connectFinally(connectCatch(s, persistSelection))
     ELSE LET s1 == [Tag(s, "connected") EXCEPT !.selectedWallet = wallet,
                                                !.selectedAccount = account,
                                                !.discCalls = 0]
          IN connectFinally(closeWalletPicker(subscribeToWalletEvents(s1, wallet)))

\* connectToWallet after the await; result.kind is how the promise settled
connectToWalletResume(s, wallet, persistSelection, result) ==
  LET account ==
        getPreferredAccount(IF result.payload.defined THEN result.payload.accounts
                            ELSE WalletAccounts[wallet])
  IN IF result.kind = "reject" \/ account = NoAccount
     THEN connectFinally(connectCatch(s, persistSelection))
     ELSE LET s1 == [Tag(s, "connected") EXCEPT !.selectedWallet = wallet,
                                                !.selectedAccount = account,
                                                !.discCalls = 0]
              s2 == IF persistSelection THEN persistPreferredWallet(s1, wallet) ELSE s1
          IN connectFinally(closeWalletPicker(subscribeToWalletEvents(s2, wallet)))

\* A faulty variant: the finally block leaves the preference in place.
disconnectFinally_keepsPreference(s) ==
  LET s1 == cleanupWalletEvents(s)
      s2 == [s1 EXCEPT !.selectedWallet = None, !.selectedAccount = NoAccount]
  IN syncBridgeState(renderWalletList(refreshButtonUi(closeWalletPicker(s2))))

\* A faulty variant: the finally block does not refresh the button.
disconnectFinally_noRefresh(s) ==
  LET s1 == cleanupWalletEvents(s)
      s2 == [s1 EXCEPT !.selectedWallet = None, !.selectedAccount = NoAccount]
  IN syncBridgeState(renderWalletList(
       closeWalletPicker(persistPreferredWallet(s2, None))))

\* disconnectWallet: the finally block
disconnectFinally(s) ==
  LET s1 == cleanupWalletEvents(s)
      s2 == [s1 EXCEPT !.selectedWallet = None, !.selectedAccount = NoAccount]
  IN syncBridgeState(renderWalletList(refreshButtonUi(
       closeWalletPicker(persistPreferredWallet(s2, None)))))

\* disconnectWallet up to `await disconnectFeature.disconnect()`
disconnectWallet(s) ==
  IF s.selectedWallet = None THEN s
  ELSE IF "standard:disconnect" \in Features[s.selectedWallet]
       THEN [Tag(s, "awaiting") EXCEPT
                      !.ev.disconnects = @ + 1,
                      !.discCalls = @ + 1,
                      !.discPending[s.selectedWallet] = @ + 1]
       ELSE disconnectFinally(Tag(s, "finished"))

\* A faulty variant: a selected wallet does not stop the attempt.
attemptAutoReconnect_ignoresSelection(s) ==
  LET preferredWalletId == getPreferredWalletId(s)
      wallets == getConnectableWallets(s)
      found == {i \in 1..Len(wallets) : getWalletIdentifier(wallets[i]) = preferredWalletId}
  IN IF preferredWalletId = None \/ preferredWalletId = "" \/ s.isConnecting
     THEN s
     ELSE IF found = {} THEN s
     ELSE connectToWallet(s, wallets[CHOOSE i \in found : \A j \in found : i <= j], FALSE)

attemptAutoReconnect(s) ==
  LET preferredWalletId == getPreferredWalletId(s)
      wallets == getConnectableWallets(s)
      found == {i \in 1..Len(wallets) : getWalletIdentifier(wallets[i]) = preferredWalletId}
  IN IF preferredWalletId = None \/ preferredWalletId = ""
        \/ s.selectedWallet # None \/ s.isConnecting
     THEN s
     ELSE IF found = {} THEN s
     ELSE connectToWallet(s, wallets[CHOOSE i \in found : \A j \in found : i <= j], FALSE)

\* walletsApi.on('register', ...)
onRegister(s) ==
  attemptAutoReconnect(renderWalletList([s EXCEPT !.ev.handlers = @ + 1]))

\* A faulty variant: the account outlives the wallet.
onUnregister_keepsAccount(s) ==
  LET s0 == [s EXCEPT !.ev.handlers = @ + 1]
      s1 == IF /\ s0.selectedWallet # None
               /\ ~\E w \in Range(getConnectableWallets(s0)) :
                     getWalletIdentifier(w) = getWalletIdentifier(s0.selectedWallet)
            THEN syncBridgeState(persistPreferredWallet(
                   [Tag(cleanupWalletEvents(s0), "unregistered") EXCEPT
                      !.selectedWallet = None],
                   None))
            ELSE s0
  IN refreshButtonUi(renderWalletList(s1))

\* walletsApi.on('unregister', ...)
onUnregister(s) ==
  LET s0 == [s EXCEPT !.ev.handlers = @ + 1]
      s1 == IF /\ s0.selectedWallet # None
               /\ ~\E w \in Range(getConnectableWallets(s0)) :
                     getWalletIdentifier(w) = getWalletIdentifier(s0.selectedWallet)
            THEN syncBridgeState(persistPreferredWallet(
                   [Tag(cleanupWalletEvents(s0), "unregistered") EXCEPT
                      !.selectedWallet = None, !.selectedAccount = NoAccount],
                   None))
            ELSE s0
  IN refreshButtonUi(renderWalletList(s1))

\* every listener the widget added to the registry runs, in the order added
RECURSIVE runRegister(_, _)
runRegister(s, n) == IF n = 0 THEN s ELSE runRegister(onRegister(s), n - 1)

RECURSIVE runUnregister(_, _)
runUnregister(s, n) == IF n = 0 THEN s ELSE runUnregister(onUnregister(s), n - 1)

FreshDom ==
  [rendered |-> TRUE, text |-> "Connect Wallet", pickerHidden |-> TRUE,
   discHidden |-> TRUE, list |-> <<>>, active |-> {}]
NoDom ==
  [rendered |-> FALSE, text |-> "", pickerHidden |-> TRUE,
   discHidden |-> TRUE, list |-> <<>>, active |-> {}]

\* A faulty variant: no check for the container that is already mounted.
mountWalletConnectButton_noGuard(s, target) ==
  IF target = Missing THEN s
  ELSE LET s1 == [Tag(s, IF s.mountedContainer = target THEN "already mounted"
                         ELSE "mounted") EXCEPT
                           !.mountedContainer = target,
                           !.dom[target] = FreshDom,
                           !.els = target,
                           !.regHandlers = @ + 1,
                           !.unregHandlers = @ + 1,
                           !.docHandlers = @ + 1,
                           !.handles = @ \cup {target},
                           !.mounts = @ + 1]
       IN attemptAutoReconnect(syncBridgeState(refreshButtonUi(renderWalletList(s1))))

mountWalletConnectButton(s, target) ==
  IF target = Missing THEN s
  ELSE IF s.mountedContainer = target THEN Tag(s, "already mounted")
  ELSE LET s1 == [Tag(s, "mounted") EXCEPT
                           !.mountedContainer = target,
                           !.dom[target] = FreshDom,
                           !.els = target,
                           !.regHandlers = @ + 1,
                           !.unregHandlers = @ + 1,
                           !.docHandlers = @ + 1,
                           !.handles = @ \cup {target},
                           !.mounts = @ + 1]
       IN attemptAutoReconnect(syncBridgeState(refreshButtonUi(renderWalletList(s1))))

\* the unmount() of the handle a complete mount on `container` returned
unmount(s, container) ==
  LET s1 == [cleanupWalletEvents(s) EXCEPT !.unmountCalled = TRUE] IN
  IF s1.mountedContainer = container THEN [s1 EXCEPT !.mountedContainer = None] ELSE s1

\* the click listener of the connect button
onButtonClick(s) ==
  IF s.selectedAccount # NoAccount THEN toggleWalletPicker(s) ELSE openWalletPicker(s)

----------------------------------------------------------------------------
(* The signer: the async function getSigner(wallet, account) returns.  One  *)
(* call of it runs up to its first await; each awaited promise settles in   *)
(* a step of its own.                                                       *)

SignTransactionFeatures == {"sui:signTransaction", "sui:signTransactionBlock"}
SignAndExecuteFeatures ==
  {"sui:signAndExecuteTransaction", "sui:signAndExecuteTransactionBlock"}

\* the wallet argument of getSigner: absent, or a wallet with some signing features
SignerWallet(present, name, features) ==
  [present |-> present, name |-> name, features |-> features]
AbsentWallet == SignerWallet(FALSE, "", {})
SignerWallets ==
  {AbsentWallet} \cup
  {SignerWallet(TRUE, "Slush", F) :
     F \in SUBSET (SignTransactionFeatures \cup SignAndExecuteFeatures)}

\* the `chain` property of the signer's argument; None when it is left out
SignerChains == {None, "sui:testnet"}
\* the sender the transaction carries when it is handed to the signer
SignerSenders == {"", "0xb0b"}
\* what a wallet or the RPC client rejects with
SignerFailures == {"User rejected the request", "RPC request failed"}

NotConnected == "Wallet not connected"
Unsupported(wallet) == "Wallet " \o wallet.name \o " does not support transaction signing."

\* pc: where the call stands; calls: the signing helpers and client methods
\* invoked so far; error: what the returned promise rejected with
SignerCallOf(wallet, account, sender, pc) ==
  [wallet |-> wallet, account |-> account, sender |-> sender, chain |-> None,
   pc |-> pc, calls |-> <<>>, error |-> ""]
NotCalled == SignerCallOf(AbsentWallet, NoAccount, "", "none")
SignerInputs ==
  {SignerCallOf(wallet, account, sender, "idle") :
     wallet \in SignerWallets, account \in {NoAccount, A1}, sender \in SignerSenders}

\* A faulty variant: sign-and-execute is tried first.
signerStart_prefersSignAndExecute(c, chain) ==
  IF ~c.wallet.present \/ c.account = NoAccount
  THEN [c EXCEPT !.pc = "rejected", !.error = NotConnected]
  ELSE LET c1 == [c EXCEPT
                    !.chain = IF chain = None THEN SUI_MAINNET_CHAIN ELSE chain,
                    !.sender = IF @ = "" THEN c.account.address ELSE @]
       IN IF c.wallet.features \cap SignAndExecuteFeatures # {}
          THEN [c1 EXCEPT !.pc = "signAndExecute",
                          !.calls = Append(@, "walletStandardSignAndExecuteTransaction")]
          ELSE IF c.wallet.features \cap SignTransactionFeatures # {}
          THEN [c1 EXCEPT !.pc = "sign",
                          !.calls = Append(@, "walletStandardSignTransaction")]
          ELSE [c1 EXCEPT !.pc = "rejected", !.error = Unsupported(c.wallet)]

\* the signer from its call to its first await (or to its throw)
signerStart(c, chain) ==
  IF ~c.wallet.present \/ c.account = NoAccount
  THEN [c EXCEPT !.pc = "rejected", !.error = NotConnected]
  ELSE LET c1 == [c EXCEPT
                    !.chain = IF chain = None THEN SUI_MAINNET_CHAIN ELSE chain,
                    !.sender = IF @ = "" THEN c.account.address ELSE @]
       IN IF c.wallet.features \cap SignTransactionFeatures # {}
          THEN [c1 EXCEPT !.pc = "sign",
                          !.calls = Append(@, "walletStandardSignTransaction")]
          ELSE IF c.wallet.features \cap SignAndExecuteFeatures # {}
          THEN [c1 EXCEPT !.pc = "signAndExecute",
                          !.calls = Append(@, "walletStandardSignAndExecuteTransaction")]
          ELSE [c1 EXCEPT !.pc = "rejected", !.error = Unsupported(c.wallet)]

\* the signer after an awaited promise settled; a rejection is not caught
signerResume(c, kind, reason) ==
  IF kind = "reject" THEN [c EXCEPT !.pc = "rejected", !.error = reason]
  ELSE IF c.pc = "sign"
       THEN [c EXCEPT !.pc = "execute", !.calls = Append(@, "executeTransactionBlock")]
  ELSE IF c.pc = "signAndExecute"
       THEN [c EXCEPT !.pc = "wait", !.calls = Append(@, "waitForTransaction")]
  ELSE [c EXCEPT !.pc = "resolved"]

----------------------------------------------------------------------------
(* Initial state: the module has been loaded, nothing is mounted.  The      *)
(* preference may have been stored by an earlier session.                   *)

Loaded ==
  /\ selectedWallet = None
  /\ selectedAccount = NoAccount
  /\ isConnecting = FALSE
  /\ walletEventsUnsubscribe = None
  /\ mountedContainer = None
  /\ els = None
  /\ dom = [c \in Containers |-> NoDom]
  /\ storage \in StorageModes
  /\ pref \in IF storage = "disabled" THEN {None}
              ELSE {None} \cup {getWalletIdentifier(w) : w \in Wallets}
  /\ bridge = Unpublished
  /\ registry = {}   \* wallets register one by one, before or after the mount
  /\ regHandlers = 0
  /\ unregHandlers = 0
  /\ docHandlers = 0
  /\ handles = {}
  /\ connectPending = <<>>
  /\ discPending = [w \in Wallets |-> 0]
  /\ discCalls = 0
  /\ mounts = 0
  /\ unmountCalled = FALSE
  /\ ev = NoEvent

\* the widget on its own: the signer is not called
Init == Loaded /\ signerCall = NotCalled

----------------------------------------------------------------------------
(* Tasks *)

PendingDisconnects == discPending["W1"] + discPending["W2"] + discPending["W3"]

\* the page calls mountWalletConnectButton(target)
Mount(target) ==
  /\ target = Missing \/ mountedContainer = target \/ mounts < MaxMounts
  /\ Install(mountWalletConnectButton(Begin(Cur), target))

\* the page calls unmount() on a handle of a complete mount
Unmount(container) ==
  /\ container \in handles
  /\ Install(unmount(Begin(Cur), container))

\* the user clicks the connect button shown in a container
ButtonClick(container) ==
  /\ dom[container].rendered
  /\ dom[container].text # "Connecting..."
  /\ Install(onButtonClick(Begin(Cur)))

\* the user clicks a wallet of the list shown in a container
WalletClick(container, wallet) ==
  /\ dom[container].rendered
  /\ ~dom[container].pickerHidden
  /\ wallet \in Range(dom[container].list)
  /\ Install(connectToWallet(Begin(Cur), wallet, TRUE))

\* the user clicks the Disconnect button shown in a container
DisconnectClick(container) ==
  /\ dom[container].rendered
  /\ ~dom[container].pickerHidden
  /\ ~dom[container].discHidden
  /\ selectedWallet # None => PendingDisconnects < MaxPendingDisconnects
  /\ Install(disconnectWallet(Begin(Cur)))

\* the application calls the disconnect function the bridge holds
BridgeDisconnect ==
  /\ bridge.disconnect
  /\ selectedWallet # None => PendingDisconnects < MaxPendingDisconnects
  /\ Install(disconnectWallet(Begin(Cur)))

\* Escape, or a click outside the container
DismissPicker ==
  /\ docHandlers > 0
  /\ Install(closeWalletPicker(Begin(Cur)))

\* a wallet registers with the registry
Register(wallet) ==
  /\ wallet \notin registry
  /\ Install(runRegister(
       [Begin(Cur) EXCEPT !.registry = @ \cup {wallet}],
       regHandlers))

\* a wallet leaves the registry
Unregister(wallet) ==
  /\ wallet \in registry
  /\ Install(runUnregister(
       [Begin(Cur) EXCEPT !.registry = @ \ {wallet}],
       unregHandlers))

\* a wallet emits 'change'; the widget hears it if its listener is live
WalletChange(wallet, payload) ==
  /\ "standard:events" \in Features[wallet]
  /\ LET s == Begin(Cur) IN
     IF walletEventsUnsubscribe = wallet
     THEN Install(onChange([s EXCEPT !.ev.handlers = @ + 1], wallet, payload))
     ELSE Install(s)

\* a connect() promise settles
ConnectSettle(i, kind, payload) ==
  /\ i \in 1..Len(connectPending)
  /\ LET task == connectPending[i]
         s == [Begin(Cur) EXCEPT
                 !.connectPending = SubSeq(@, 1, i - 1) \o SubSeq(@, i + 1, Len(@))]
     IN Install(connectToWalletResume(s, task.wallet, task.persistSelection,
                                      [kind |-> IF kind = "connectResolved" THEN "resolve"
                                                ELSE "reject",
                                       payload |-> payload]))

\* a disconnect() promise settles
DisconnectSettle(wallet, kind) ==
  /\ discPending[wallet] > 0
  /\ Install(disconnectFinally(
       Tag([Begin(Cur) EXCEPT !.discPending[wallet] = @ - 1], kind)))

Next ==
  \/ \E target \in Containers \cup {Missing} : Mount(target)
  \/ \E container \in Containers : Unmount(container)
  \/ \E container \in Containers : ButtonClick(container)
  \/ \E container \in Containers, wallet \in Wallets : WalletClick(container, wallet)
  \/ \E container \in Containers : DisconnectClick(container)
  \/ BridgeDisconnect
  \/ DismissPicker
  \/ \E wallet \in Wallets : Register(wallet)
  \/ \E wallet \in Wallets : Unregister(wallet)
  \/ \E wallet \in Wallets, payload \in Payloads : WalletChange(wallet, payload)
  \/ \E i \in 1..Len(connectPending), payload \in Payloads :
       ConnectSettle(i, "connectResolved", payload)
  \/ \E i \in 1..Len(connectPending) : ConnectSettle(i, "connectRejected", NoPayload)
  \/ \E wallet \in Wallets : DisconnectSettle(wallet, "finished")
  \/ \E wallet \in Wallets : DisconnectSettle(wallet, "warned")

Spec == Init /\ [][Next]_vars

----------------------------------------------------------------------------
(* The signer on its own: the widget stays as loaded, the application calls *)
(* a signer made for some wallet and account.                               *)

widgetVars == <<selectedWallet, selectedAccount, isConnecting, walletEventsUnsubscribe,
                mountedContainer, els, dom, pref, storage, bridge, registry,
                regHandlers, unregHandlers, docHandlers, handles, connectPending,
                discPending, discCalls, mounts, unmountCalled, ev>>

SignerInit ==
  /\ Loaded
  /\ storage = "ok"
  /\ pref = None
  /\ signerCall \in SignerInputs

\* the application calls the signer with { transaction, chain }
SignerCall(chain) ==
  /\ signerCall.pc = "idle"
  /\ signerCall' = signerStart(signerCall, chain)
  /\ UNCHANGED widgetVars

\* the promise the signer awaits (or returns) settles
SignerSettle(kind, reason) ==
  /\ signerCall.pc \in {"sign", "execute", "signAndExecute", "wait"}
  /\ signerCall' = signerResume(signerCall, kind, reason)
  /\ UNCHANGED widgetVars

SignerNext ==
  \/ \E chain \in SignerChains : SignerCall(chain)
  \/ SignerSettle("resolve", "")
  \/ \E reason \in SignerFailures : SignerSettle("reject", reason)

SignerSpec == SignerInit /\ [][SignerNext]_vars

----------------------------------------------------------------------------
(* Properties *)

Selection == <<selectedWallet, selectedAccount, isConnecting>>
PersistedPreference == getPreferredWalletId(Cur)

AnyWalletClick == \E container \in Containers, wallet \in Wallets : WalletClick(container, wallet)
AnyRegister == \E wallet \in Wallets : Register(wallet)
AnyUnregister == \E wallet \in Wallets : Unregister(wallet)
AnyMount == \E target \in Containers \cup {Missing} : Mount(target)
AnyChange == \E wallet \in Wallets, payload \in Payloads : WalletChange(wallet, payload)
AnyDisconnectRequest ==
  /\ registry' = registry /\ connectPending' = connectPending
  /\ BridgeDisconnect \/ \E container \in Containers : DisconnectClick(container)
AnyDisconnectSettle ==
  /\ discPending' # discPending
  /\ \E wallet \in Wallets :
       DisconnectSettle(wallet, "finished") \/ DisconnectSettle(wallet, "warned")

\* the widget's listener hears a 'change' event of the wallet
ChangeHeard(wallet, payload) ==
  /\ walletEventsUnsubscribe = wallet
  /\ registry' = registry /\ connectPending' = connectPending /\ discPending' = discPending
  /\ WalletChange(wallet, payload)

\* the list connectToWallet hands to getPreferredAccount
ConnectedAccounts(wallet, payload) ==
  IF payload.defined THEN payload.accounts ELSE WalletAccounts[wallet]

\* the connect() promise of the attempt in flight resolves with at least one account
ConnectSucceeds(payload) ==
  /\ connectPending # <<>>
  /\ connectPending' # connectPending
  /\ ConnectedAccounts(connectPending[1].wallet, payload) # <<>>
  /\ ConnectSettle(1, "connectResolved", payload)

\* C1: a connect request (a click on a wallet, or the auto-reconnect of a
\* 'register' event or of a mount) made while a connect attempt is in flight
\* calls no connect(), leaves wallet, account and connecting alone and, for
\* the click and the 'register' event, publishes nothing; so at most one
\* connect() call is ever outstanding, and exactly one while connecting.
C1_ConnectWhileConnectingIsNoOp ==
  /\ [](Len(connectPending) <= 1 /\ (isConnecting <=> Len(connectPending) = 1))
  /\ [][(isConnecting /\ (AnyWalletClick \/ AnyRegister))
          => /\ UNCHANGED <<Selection, bridge, connectPending>>
             /\ ev'.connects = 0 /\ ev'.pubs = 0]_vars
  /\ [][(isConnecting /\ AnyMount)
          => UNCHANGED <<Selection, connectPending>> /\ ev'.connects = 0]_vars

C1_Witness ==
  /\ ev.tag = "dropped"
  /\ isConnecting
  /\ Len(connectPending) = 1

\* C2 as claimed: when a connect attempt to W succeeds, wallet = W and
\* account # none, and with persistSelection = true the persisted preference
\* is W's identifier.
C2_Claimed ==
  [][\A payload \in Payloads :
       ConnectSucceeds(payload)
         => /\ selectedWallet' = connectPending[1].wallet
            /\ selectedAccount' # NoAccount
            /\ connectPending[1].persistSelection
                 => PersistedPreference' = getWalletIdentifier(connectPending[1].wallet)]_vars

\* C2: when a connect attempt to W succeeds, wallet = W and account # none,
\* and with persistSelection = true the persisted preference is W's
\* identifier unless localStorage throws (the error is swallowed and nothing
\* is stored).
C2_SuccessfulConnectSelectsAndPersists ==
  [][\A payload \in Payloads :
       ConnectSucceeds(payload)
         => /\ selectedWallet' = connectPending[1].wallet
            /\ selectedAccount' # NoAccount
            /\ (connectPending[1].persistSelection /\ storage = "ok")
                 => PersistedPreference' = getWalletIdentifier(connectPending[1].wallet)]_vars

C2_Witness ==
  /\ ev.tag = "connected"
  /\ ev.writes = 1
  /\ storage = "ok"
  /\ selectedWallet = "W2"
  /\ selectedAccount # NoAccount
  /\ pref = "phantom-id"

\* C3: whenever a disconnect request finishes (at once when no wallet is
\* selected or the wallet has no disconnect capability, otherwise when the
\* disconnect() promise resolves or rejects), wallet = none, account = none
\* and the persisted preference is cleared.
C3_DisconnectAlwaysClears ==
  [][(AnyDisconnectSettle \/ (AnyDisconnectRequest /\ ev'.disconnects = 0))
       => /\ selectedWallet' = None
          /\ selectedAccount' = NoAccount
          /\ PersistedPreference' = None]_vars

C3_Witness ==
  /\ ev.tag = "warned"
  /\ ev.writes = 1
  /\ selectedWallet = None
  /\ selectedAccount = NoAccount
  /\ pref = None
  /\ storage = "ok"

\* C4: between a successful connect and the next return to Disconnected the
\* disconnect capability is invoked at most once.
C4_DisconnectInvokedAtMostOnce == discCalls <= 1

\* C5: in state Connected(W, a), a 'change' event of W with accounts [] that
\* the widget's listener hears moves the state to wallet = none and account =
\* none in that handler run and clears the persisted preference.
C5_EmptyChangeDisconnects ==
  [][\A wallet \in Wallets :
       (/\ selectedWallet = wallet
        /\ selectedAccount # NoAccount
        /\ ChangeHeard(wallet, Payload(TRUE, <<>>)))
         => /\ selectedWallet' = None
            /\ selectedAccount' = NoAccount
            /\ PersistedPreference' = None
            /\ bridge'.status # "connected"]_vars

C5_Witness ==
  /\ ev.tag = "cleared"
  /\ ev.handlers = 1
  /\ selectedWallet = None
  /\ selectedAccount = NoAccount
  /\ pref = None
  /\ storage = "ok"

\* the first entry whose chain list contains 'sui:mainnet', else the first entry
FirstMainnetOrFirst(accounts) ==
  LET onMainnet == {i \in 1..Len(accounts) :
                      /\ accounts[i].chainsIsArray
                      /\ \E k \in 1..Len(accounts[i].chains) :
                           accounts[i].chains[k] = "sui:mainnet"}
  IN IF onMainnet # {}
     THEN accounts[CHOOSE i \in onMainnet : \A j \in onMainnet : i <= j]
     ELSE accounts[1]

\* C6: the account selected from the list of a successful connect, or from
\* the non-empty list of a 'change' event heard for the active wallet, is the
\* first entry on 'sui:mainnet', else the first entry; the 'change' event
\* leaves the selected wallet unchanged.
C6_PreferredAccountSelected ==
  /\ [][\A payload \in Payloads :
          ConnectSucceeds(payload)
            => selectedAccount' =
                 FirstMainnetOrFirst(ConnectedAccounts(connectPending[1].wallet, payload))]_vars
  /\ [][\A wallet \in Wallets, payload \in Payloads :
          (/\ selectedWallet = wallet
           /\ ConnectedAccounts(wallet, payload) # <<>>
           /\ ChangeHeard(wallet, payload))
            => /\ selectedAccount' = FirstMainnetOrFirst(ConnectedAccounts(wallet, payload))
               /\ selectedWallet' = selectedWallet]_vars

C6_Witness ==
  /\ ev.tag = "account"
  /\ selectedAccount = A3
  /\ selectedWallet = "W1"

\* C7: the selected account is non-none only if the selected wallet is non-none.
C7_AccountOnlyWithWallet == selectedAccount # NoAccount => selectedWallet # None

C7_Witness ==
  /\ ev.tag = "unregistered"
  /\ selectedWallet = None
  /\ selectedAccount = NoAccount
  /\ isConnecting

\* C8: between tasks, what was last published to the bridge matches the
\* selection: wallet and account are the selected ones when both are set and
\* none otherwise, the status is 'connected' exactly when both are set, and
\* disconnect and the signer are there exactly when the status is 'connected'.
C8_BridgeMatchesSelection ==
  bridge # Unpublished =>
    /\ IF selectedWallet # None /\ selectedAccount # NoAccount
       THEN /\ bridge.wallet = selectedWallet
            /\ bridge.account = selectedAccount
            /\ bridge.status = "connected"
       ELSE /\ bridge.wallet = None
            /\ bridge.account = NoAccount
            /\ bridge.status # "connected"
    /\ bridge.disconnect <=> bridge.status = "connected"
    /\ bridge.signAndExecute # NoSigner <=> bridge.status = "connected"
    /\ bridge.status = "connected"
         => bridge.signAndExecute = getSigner(selectedWallet, selectedAccount)

C8_Witness ==
  /\ ev.tag = "connected"
  /\ bridge.status = "connected"
  /\ bridge.wallet = "W1"
  /\ bridge.account = A4

\* C9: a mount call on the container that is currently mounted changes
\* nothing: no render, no listener added, nothing published, no connect
\* started; and as long as unmount() has not run, the registry carries at
\* most one 'register' and one 'unregister' listener of the widget.
C9_MountIsIdempotent ==
  /\ [](~unmountCalled => regHandlers <= 1 /\ unregHandlers <= 1 /\ docHandlers <= 1)
  /\ [][\A container \in Containers :
          (mountedContainer = container /\ Mount(container))
            => /\ UNCHANGED <<Selection, walletEventsUnsubscribe, mountedContainer, els,
                              dom, pref, bridge, registry, regHandlers, unregHandlers,
                              docHandlers, connectPending, discPending>>
               /\ ev'.pubs = 0 /\ ev'.connects = 0 /\ ev'.writes = 0]_vars

C9_Witness ==
  /\ ev.tag = "already mounted"
  /\ ~unmountCalled
  /\ regHandlers = 1
  /\ unregHandlers = 1

\* C10: after unmount() a registry 'register' or 'unregister' event or a
\* wallet 'change' event changes no selection state, starts no connect
\* attempt and publishes nothing; and at any time an event is handled by at
\* most one listener of the widget.
C10_UnmountDetachesSubscriptions ==
  [][(AnyRegister \/ AnyUnregister \/ AnyChange)
       => /\ ev'.handlers <= 1
          /\ (unmountCalled /\ mountedContainer = None)
               => /\ UNCHANGED Selection
                  /\ ev'.connects = 0
                  /\ ev'.pubs = 0]_vars

\* what a call of the signer that has started may have done
SignerFollowsPolicy(c) ==
  LET connected == c.wallet.present /\ c.account # NoAccount
      canSign == c.wallet.features \cap SignTransactionFeatures # {}
      canSignAndExecute == c.wallet.features \cap SignAndExecuteFeatures # {}
  IN /\ ~connected
          => c.pc = "rejected" /\ c.error = NotConnected /\ c.calls = <<>>
     /\ (connected /\ canSign)
          => /\ c.calls \in {<<"walletStandardSignTransaction">>,
                             <<"walletStandardSignTransaction",
                               "executeTransactionBlock">>}
             /\ c.pc = "resolved" => Len(c.calls) = 2
     /\ (connected /\ ~canSign /\ canSignAndExecute)
          => /\ c.calls \in {<<"walletStandardSignAndExecuteTransaction">>,
                             <<"walletStandardSignAndExecuteTransaction",
                               "waitForTransaction">>}
             /\ c.pc = "resolved" => Len(c.calls) = 2
     /\ (connected /\ ~canSign /\ ~canSignAndExecute)
          => /\ c.pc = "rejected"
             /\ c.error = "Wallet Slush does not support transaction signing."
             /\ c.calls = <<>>

\* C11: a signer made without a wallet or without an account rejects with
\* 'Wallet not connected' and calls nothing; otherwise a wallet with a
\* sign-transaction feature (either variant) is asked to sign and the client
\* then executes; a wallet with only a sign-and-execute feature (either
\* variant) is asked to sign and execute and the client then waits for the
\* transaction; a wallet with neither gets the unsupported-wallet rejection
\* and no call; and what a wallet or the client rejects with is what the
\* signer's promise rejects with.
C11_SignerPolicy ==
  /\ [](signerCall.pc # "idle" => SignerFollowsPolicy(signerCall))
  /\ [][\A reason \in SignerFailures :
          SignerSettle("reject", reason)
            => /\ signerCall'.pc = "rejected"
               /\ signerCall'.error = reason
               /\ signerCall'.calls = signerCall.calls]_vars

C11_Witness ==
  /\ signerCall.pc = "resolved"
  /\ signerCall.wallet.features =
       {"sui:signTransactionBlock", "sui:signAndExecuteTransaction"}
  /\ signerCall.calls = <<"walletStandardSignTransaction", "executeTransactionBlock">>

\* C12 as claimed: every step that changes wallet, account or connecting ends
\* with the button, the wallet list and the bridge all refreshed after the
\* change, in the same task.
C12_Claimed ==
  [][Selection' # Selection
       => /\ ev'.uiSaw = Selection'
          /\ ev'.listSaw = Selection'
          /\ ev'.pubSaw = Selection']_vars

\* C12: every step that changes wallet, account or connecting ends with the
\* button and the bridge refreshed after the change, in the same task; the
\* wallet list is refreshed after the change too, except when the change is
\* the start of a connect attempt (connecting becomes true), which the list
\* does not show: between tasks the list on screen is the list a re-render
\* would draw.
C12_TransitionsAreObserved ==
  /\ [][Selection' # Selection
          => /\ ev'.uiSaw = Selection'
             /\ ev'.pubSaw = Selection'
             /\ (isConnecting' /\ ~isConnecting) \/ ev'.listSaw = Selection']_vars
  /\ [](els # None => dom[els] = renderWalletList(Cur).dom[els])

C12_Witness ==
  /\ ev.tag = "unregistered"
  /\ selectedWallet = None
  /\ ev.uiSaw = Selection
  /\ ev.listSaw = Selection
  /\ ev.pubSaw = Selection

\* the connect() promise of the attempt in flight settles
AnyConnectSettle ==
  /\ connectPending # <<>>
  /\ connectPending' # connectPending
  /\ \/ ConnectSettle(1, "connectRejected", NoPayload)
     \/ \E payload \in Payloads : ConnectSettle(1, "connectResolved", payload)

\* it rejects, or resolves with no account
AnyConnectFailure ==
  /\ connectPending # <<>>
  /\ connectPending' # connectPending
  /\ \/ ConnectSettle(1, "connectRejected", NoPayload)
     \/ \E payload \in Payloads :
          /\ ConnectedAccounts(connectPending[1].wallet, payload) = <<>>
          /\ ConnectSettle(1, "connectResolved", payload)

\* C13 as claimed: after a failed connect attempt wallet = none, account =
\* none and connecting = false; the failure is logged and not raised.
C13_Claimed ==
  [][AnyConnectFailure
       => /\ Selection' = <<None, NoAccount, FALSE>>
          /\ ev'.logged = 1
          /\ ~ev'.raised]_vars

\* C13: a failed connect attempt sets connecting = false and leaves wallet and
\* account as they were when the call settled: none if nothing was connected,
\* the wallet connected before otherwise; the failure is logged once and not
\* raised.
C13_FailedConnectKeepsSelection ==
  [][AnyConnectFailure
       => /\ isConnecting' = FALSE
          /\ selectedWallet' = selectedWallet
          /\ selectedAccount' = selectedAccount
          /\ ev'.logged = 1
          /\ ~ev'.raised]_vars

C13_Witness ==
  /\ ev.tag = "failed"
  /\ ev.logged = 1
  /\ selectedWallet = "W1"
  /\ selectedAccount # NoAccount
  /\ ~isConnecting

\* C14: a mount or a 'register' event calls connect() only if no wallet is
\* selected, no attempt is in flight and the persisted preference is the
\* identifier of a connectable wallet of the registry; the one attempt it
\* starts is for that wallet with persistSelection = false; and the
\* settling of an attempt with persistSelection = false writes no preference.
C14_AutoReconnectGuarded ==
  /\ [][(ev'.connects > 0 /\ (AnyMount \/ AnyRegister))
          => /\ selectedWallet = None
             /\ ~isConnecting
             /\ PersistedPreference \notin {None, ""}
             /\ ev'.connects = 1
             /\ \E w \in registry' :
                  /\ canConnect(w)
                  /\ getWalletIdentifier(w) = PersistedPreference
                  /\ connectPending' = <<[wallet |-> w, persistSelection |-> FALSE]>>]_vars
  /\ [][(AnyConnectSettle /\ ~connectPending[1].persistSelection)
          => ev'.writes = 0 /\ pref' = pref]_vars

C14_Witness ==
  /\ ev.tag = "started"
  /\ ev.handlers = 1
  /\ pref = "phantom-id"
  /\ connectPending = <<[wallet |-> "W2", persistSelection |-> FALSE]>>

\* C15: when the task before was an auto-reconnect attempt that failed, a
\* registry 'register' event starts no connect attempt.
C15_NoAutomaticRetry ==
  [][(ev.tag = "autoFailed" /\ AnyRegister)
       => ev'.connects = 0 /\ ~isConnecting']_vars

\* C16: when the connect() promise of an attempt settles, connecting becomes
\* false and the button and the bridge are refreshed with it, whatever the
\* outcome; connecting stays true as long as the promise has not settled; and
\* while it is true a click on a wallet starts nothing.
C16_SettledAttemptLeavesConnecting ==
  /\ [][AnyConnectSettle
          => /\ ~isConnecting'
             /\ connectPending' = <<>>
             /\ ev'.uiSaw = Selection'
             /\ ev'.pubSaw = Selection'
             /\ dom'[els'].text # "Connecting..."
             /\ bridge'.status # "connecting"]_vars
  /\ [][(isConnecting /\ connectPending' = connectPending) => isConnecting']_vars
  /\ [][(isConnecting /\ AnyWalletClick)
          => ev'.connects = 0 /\ connectPending' = connectPending]_vars

C16_Witness ==
  /\ ev.tag = "autoFailed"
  /\ ~isConnecting
  /\ connectPending = <<>>
  /\ bridge.status = "disconnected"
  /\ ev.uiSaw = Selection

\* C17 as claimed: while connecting the button shows 'Connecting...' and the
\* last published bridge status is 'connecting'; otherwise neither says so.
C17_Claimed ==
  els # None =>
    /\ isConnecting <=> dom[els].text = "Connecting..."
    /\ isConnecting <=> bridge.status = "connecting"

\* C17: the button shows 'Connecting...' exactly while connecting; the last
\* published bridge status is then 'connecting' if no wallet is connected and
\* 'connected' if the attempt was started while a wallet was connected; when
\* not connecting the status is never 'connecting'.
C17_BridgeAndButtonWhileConnecting ==
  els # None =>
    /\ isConnecting <=> dom[els].text = "Connecting..."
    /\ isConnecting =>
         bridge.status = IF selectedWallet # None /\ selectedAccount # NoAccount
                         THEN "connected" ELSE "connecting"
    /\ ~isConnecting => bridge.status # "connecting"

C17_Witness ==
  /\ isConnecting
  /\ selectedWallet = "W1"
  /\ els # None
  /\ dom[els].text = "Connecting..."
  /\ bridge.status = "connected"

\* C18: between tasks, the selected wallet of a Connected state is one of the
\* connectable wallets of the registry.
C18_ConnectedWalletIsRegistered ==
  (selectedWallet # None /\ selectedAccount # NoAccount)
    => selectedWallet \in Range(getConnectableWallets(Cur))

\* C19: with a working localStorage, between tasks, the persisted preference
\* of a Connected state is the identifier of the selected wallet.
C19_PreferenceMatchesConnectedWallet ==
  (storage = "ok" /\ selectedWallet # None /\ selectedAccount # NoAccount)
    => pref = getWalletIdentifier(selectedWallet)

C19_Witness ==
  /\ ev.tag = "connected"
  /\ ev.writes = 0
  /\ storage = "ok"
  /\ selectedWallet = "W2"
  /\ pref = "phantom-id"

\* C20: when the disconnect() promise of a wallet settles while another
\* wallet is selected, the selection, the persisted preference and the live
\* 'change' subscription are left alone.
C20_PendingDisconnectSparesNewConnection ==
  [][\A wallet \in Wallets :
       (/\ discPending[wallet] > 0
        /\ selectedWallet # None
        /\ selectedWallet # wallet
        /\ discPending' # discPending
        /\ DisconnectSettle(wallet, "finished") \/ DisconnectSettle(wallet, "warned"))
         => UNCHANGED <<selectedWallet, selectedAccount, pref, walletEventsUnsubscribe>>]_vars

====
